---- MODULE Spec2Model ----
(***************************************************************************)
(* Model of car2go_map.py: a one-shot pipeline that loads a table of       *)
(* (lat, lon, hod) observations, gives every row the weight 1/12 car-hour, *)
(* clusters the rows into zones, aggregates per zone, adds one circle      *)
(* marker per zone to a map and saves the map.                             *)
(*                                                                         *)
(* Numbers.  Weights are exact rationals in the model: a weight is an      *)
(* integer count of units of 1/CarHour car-hour, CarHour ==                *)
(* samples_per_hour * num_days, so that both divisions of the script       *)
(* (1.0/samples_per_hour and sum/num_days) are exact.  Latitudes and       *)
(* longitudes are integers; their means are reduced fractions <<n, d>>.    *)
(***************************************************************************)
EXTENDS Integers, Sequences, FiniteSets, TLC

\* ------------------------------------------------------------------------
\* Program constants
\* ------------------------------------------------------------------------
samples_per_hour == 12
n_clusters == 250
num_days == 30

fill_colors ==
  << "#274cc9", "#274cc9", "#274cc9", "#274cc9",
     "#274cc9", "#3959bf", "#647aa6", "#909b8c", "#bcbc73",
     "#e8dd5a", "#f1e455", "#f1e455", "#f1e455", "#f1e455",
     "#f0df56", "#ecc45a", "#e7a95f", "#e28e63", "#de7467",
     "#c46576", "#9d5f8a", "#76599f", "#4e52b4", "#274cc9" >>

\* units of weight per car-hour
CarHour == samples_per_hour * num_days

\* ------------------------------------------------------------------------
\* Bounds of the explored inputs
\* ------------------------------------------------------------------------
\* A table is a short tile of observations repeated (the same parked car is
\* sampled again and again), or a spread of pairwise distinct points.
MaxTile == 2
\* the table has n_clusters .. n_clusters + MaxExtraRows rows
MaxExtraRows == 1

Points == { <<0, 0>>, <<2, 1>> }
Hods == { 0, 8, 23 }
\* zone ids the clustering hands to a table of few distinct points
ZoneIds == { 0, n_clusters - 1 }

TileObs == { [lat |-> p[1], lon |-> p[2], hod |-> h] : p \in Points, h \in Hods }

Tiles == UNION { [1..n -> TileObs] : n \in 1..MaxTile }

NumRows == n_clusters .. (n_clusters + MaxExtraRows)

TiledTable(tile, n) == [i \in 1..n |-> tile[((i - 1) % Len(tile)) + 1]]

HodCycle == << 8, 23, 8, 0, 8 >>

SpreadTable(n) ==
  [i \in 1..n |-> [lat |-> i - 1, lon |-> (i - 1) % 7,
                   hod |-> HodCycle[((i - 1) % Len(HodCycle)) + 1]]]

Tables ==
  { TiledTable(t, n) : t \in Tiles, n \in NumRows }
    \cup { SpreadTable(n) : n \in NumRows }

\* ------------------------------------------------------------------------
\* Arithmetic helpers
\* ------------------------------------------------------------------------
RECURSIVE GCD(_, _)
GCD(a, b) == IF b = 0 THEN a ELSE GCD(b, a % b)

\* the fraction n/d (n >= 0, d > 0) in lowest terms
Rat(n, d) == LET g == GCD(n, d) IN << n \div g, d \div g >>

RatAdd(a, b) == Rat(a[1] * b[2] + b[1] * a[2], a[2] * b[2])

\* floor of the square root
ISqrt(n) == CHOOSE r \in 0..n : r * r <= n /\ (r + 1) * (r + 1) > n

\* ------------------------------------------------------------------------
\* Table helpers (pandas)
\* ------------------------------------------------------------------------
\* sum of a column over the rows lo..hi of a sequence of rows
RECURSIVE ColSumRange(_, _, _, _)
ColSumRange(rows, col, lo, hi) ==
  IF lo > hi THEN 0
  ELSE IF lo = hi THEN rows[lo][col]
  ELSE LET mid == (lo + hi) \div 2
       IN  ColSumRange(rows, col, lo, mid) + ColSumRange(rows, col, mid + 1, hi)

ColSum(rows, col) == ColSumRange(rows, col, 1, Len(rows))

ColMean(rows, col) == Rat(ColSum(rows, col), Len(rows))

\* df.query("zone==@i")
Query(table, i) == SelectSeq(table, LAMBDA r : r.zone = i)

\* the k-th smallest element of a finite set of integers (iteration order of
\* a table indexed by a sorted group key)
Nth(S, k) == CHOOSE x \in S : Cardinality({y \in S : y < x}) = k - 1

\* ------------------------------------------------------------------------
\* State
\* ------------------------------------------------------------------------
VARIABLES
  pc,      \* the statement the script is about to run
  df,      \* the observation table, a sequence of rows
  zones,   \* the zone table: zone id -> [carh, lon, lat]
  map,     \* the folium map: [location, children]
  it,      \* number of rows of the zone table the loop has consumed
  html     \* the documents written to map.html, in order

vars == << pc, df, zones, map, it, html >>

NoMap == [location |-> << >>, children |-> << >>]

Init ==
  /\ pc = "read_csv"
  /\ df = << >>
  /\ zones = << >>
  /\ map = NoMap
  /\ it = 0
  /\ html = << >>

\* df = pandas.read_csv("lat_lon_hod.csv.gz")
ReadCsv ==
  /\ pc = "read_csv"
  /\ \E table \in Tables : df' = table
  /\ pc' = "carh"
  /\ UNCHANGED << zones, map, it, html >>

\* integer division: 1/samples_per_hour
RowWeightIntDiv == (1 \div samples_per_hour) * CarHour

\* 1.0/samples_per_hour, in units of 1/CarHour car-hour
RowWeight == (1 * CarHour) \div samples_per_hour

\* df["carh"] = 1.0/samples_per_hour
DeriveWeight ==
  /\ pc = "carh"
  /\ df' = [i \in 1..Len(df) |-> [carh |-> RowWeight] @@ df[i]]
  /\ pc' = "zone"
  /\ UNCHANGED << zones, map, it, html >>

PointsOf(table) == { << table[i].lat, table[i].lon >> : i \in 1..Len(table) }

\* The labels MiniBatchKMeans(250).fit_predict may return: every row gets
\* the id (0 .. n_clusters-1) of the centre nearest to its point, so the
\* label is a function of the point.  Explored: every such function into
\* ZoneIds for a table of few distinct points; for a spread table, one
\* that uses every cluster and one that leaves the last cluster empty.
Labellings(P) ==
  IF Cardinality(P) <= MaxTile
    THEN [P -> ZoneIds]
    ELSE { [p \in P |-> p[1] % k] : k \in {n_clusters - 1, n_clusters} }

\* df["zone"] = MiniBatchKMeans(250).fit_predict(df[["lat", "lon"]].values)
Cluster ==
  /\ pc = "zone"
  /\ \E label \in Labellings(PointsOf(df)) :
       df' = [i \in 1..Len(df) |->
                [zone |-> label[<< df[i].lat, df[i].lon >>]] @@ df[i]]
  /\ pc' = "zones"
  /\ UNCHANGED << zones, map, it, html >>

\* a grouping that keeps a row for every cluster id, with or without rows
GroupByAllClusters(table) ==
  [z \in 0..(n_clusters - 1) |->
     LET rows == Query(table, z)
     IN  IF Len(rows) = 0
         THEN [carh |-> 0, lon |-> << 0, 1 >>, lat |-> << 0, 1 >>]
         ELSE [carh |-> ColSum(rows, "carh"),
               lon  |-> ColMean(rows, "lon"),
               lat  |-> ColMean(rows, "lat")]]

\* carh aggregated with 'mean' in place of 'sum'
GroupByZoneCarhMean(table) ==
  [z \in { table[i].zone : i \in 1..Len(table) } |->
     LET rows == Query(table, z)
     IN  [carh |-> ColSum(rows, "carh") \div Len(rows),
          lon  |-> ColMean(rows, "lon"),
          lat  |-> ColMean(rows, "lat")]]

\* df.groupby("zone").agg(dict(carh='sum', lon='mean', lat='mean')):
\* one row per zone id that occurs in the table
GroupByZone(table) ==
  [z \in { table[i].zone : i \in 1..Len(table) } |->
     LET rows == Query(table, z)
     IN  [carh |-> ColSum(rows, "carh"),
          lon  |-> ColMean(rows, "lon"),
          lat  |-> ColMean(rows, "lat")]]

\* zones = df.groupby("zone").agg(...)
Aggregate ==
  /\ pc = "zones"
  /\ zones' = GroupByZone(df)
  /\ pc' = "map"
  /\ UNCHANGED << df, map, it, html >>

\* the mean of a column of fractions of the zone table
RECURSIVE RatSumIds(_, _, _, _)
RatSumIds(tbl, col, lo, hi) ==
  IF lo = hi THEN (IF lo \in DOMAIN tbl THEN tbl[lo][col] ELSE << 0, 1 >>)
  ELSE LET mid == (lo + hi) \div 2
       IN  RatAdd(RatSumIds(tbl, col, lo, mid), RatSumIds(tbl, col, mid + 1, hi))

ZonesMean(tbl, col) ==
  LET s == RatSumIds(tbl, col, 0, n_clusters - 1)
  IN  Rat(s[1], s[2] * Cardinality(DOMAIN tbl))

\* map = Map(zoom_start=12, tiles=..., location=list(zones[["lat","lon"]].mean().values))
InitMap ==
  /\ pc = "map"
  /\ map' = [location |-> << ZonesMean(zones, "lat"), ZonesMean(zones, "lon") >>,
             children |-> << >>]
  /\ pc' = "for"
  /\ UNCHANGED << df, zones, it, html >>

\* the hourly profile taken with .mean() in place of .sum()
CarhByHodMean(table, i) ==
  LET rows == Query(table, i)
  IN  [h \in { rows[k].hod : k \in 1..Len(rows) } |->
         LET sel == SelectSeq(rows, LAMBDA r : r.hod = h)
         IN  (ColSum(sel, "carh") \div Len(sel)) \div num_days]

\* df.query("zone==@i").groupby("hod").carh.sum()/num_days:
\* one entry per hour of day that occurs among the rows of zone i
CarhByHod(table, i) ==
  LET rows == Query(table, i)
  IN  [h \in { rows[k].hod : k \in 1..Len(rows) } |->
         ColSum(SelectSeq(rows, LAMBDA r : r.hod = h), "carh") \div num_days]

\* Series.argmax() of old pandas: the position of the maximum, not its label
ArgMax(s) ==
  LET h == CHOOSE x \in DOMAIN s :
             \A g \in DOMAIN s : s[g] < s[x] \/ (s[g] = s[x] /\ x <= g)
  IN  Cardinality({ g \in DOMAIN s : g < h })

\* Series.idxmax(): the label of the first occurrence of the maximum, the
\* series being in increasing order of its labels
IdxMax(s) ==
  CHOOSE h \in DOMAIN s :
    \A g \in DOMAIN s : s[g] < s[h] \/ (s[g] = s[h] /\ h <= g)

\* int(6/math.sqrt(carh)): the scale divided instead of multiplied
RadiusInverse(carh) == ISqrt((6 * 6 * CarHour) \div carh)

\* int(6*math.sqrt(carh)), carh in units of 1/CarHour car-hour
Radius(carh) == ISqrt((6 * 6 * carh) \div CarHour)

\* tuple indexing: -len .. len-1 are valid, anything else raises IndexError
TupleIndexOk(t, k) == -Len(t) <= k /\ k < Len(t)

TupleGet(t, k) == IF k >= 0 THEN t[k + 1] ELSE t[Len(t) + k + 1]

\* the marker with latitude and longitude swapped
CircleMarkerLonLat(zone, carh_by_hod) ==
  [location   |-> << zone.lon, zone.lat >>,
   radius     |-> Radius(zone.carh),
   fill_color |-> TupleGet(fill_colors, IdxMax(carh_by_hod)),
   popup      |-> carh_by_hod]

\* CircleMarker(location=..., radius=..., fill_color=..., popup=...)
CircleMarker(zone, carh_by_hod) ==
  [location   |-> << zone.lat, zone.lon >>,
   radius     |-> Radius(zone.carh),
   fill_color |-> TupleGet(fill_colors, IdxMax(carh_by_hod)),
   popup      |-> carh_by_hod]

\* the zone id of the row the loop is about to visit
LoopZone == Nth(DOMAIN zones, it + 1)

\* one iteration of: for i, zone in zones.iterrows(): ... map.add_child(...)
\* idxmax of an empty series raises ValueError, a colour index outside the
\* tuple raises IndexError; either ends the script.
AddMarker ==
  /\ pc = "for"
  /\ it < Cardinality(DOMAIN zones)
  /\ LET i == LoopZone
         carh_by_hod == CarhByHod(df, i)
     IN  IF DOMAIN carh_by_hod = {}
            \/ ~ TupleIndexOk(fill_colors, IdxMax(carh_by_hod))
         THEN /\ pc' = "error"
              /\ UNCHANGED << map, it >>
         ELSE /\ map' = [map EXCEPT !.children =
                           Append(@, CircleMarker(zones[i], carh_by_hod))]
              /\ it' = it + 1
              /\ pc' = "for"
  /\ UNCHANGED << df, zones, html >>

\* the loop is exhausted
EndFor ==
  /\ pc = "for"
  /\ it = Cardinality(DOMAIN zones)
  /\ pc' = "save"
  /\ UNCHANGED << df, zones, map, it, html >>

\* map.save indented into the loop body's place: the script saves from
\* inside the loop and ends
SaveInLoop ==
  /\ pc \in {"for", "save"}
  /\ html' = Append(html, map)
  /\ pc' = "done"
  /\ UNCHANGED << df, zones, map, it >>

\* map.save('map.html')
Save ==
  /\ pc = "save"
  /\ html' = Append(html, map)
  /\ pc' = "done"
  /\ UNCHANGED << df, zones, map, it >>

Next ==
  \/ ReadCsv
  \/ DeriveWeight
  \/ Cluster
  \/ Aggregate
  \/ InitMap
  \/ AddMarker
  \/ EndFor
  \/ Save

Spec == Init /\ [][Next]_vars

\* The interpreter runs the next statement as long as there is one: while
\* the script has neither ended nor raised, its position (pc, it) eventually
\* moves.  Every step of Next moves (pc, it) and some step of Next is
\* possible at every position but "done" and "error", so this is weak
\* fairness of Next, written on the position alone.
Advance ==
  /\ pc \notin {"done", "error"}
  /\ pc' \in {"carh", "zone", "zones", "map", "for", "save", "done", "error"}
  /\ it' \in {it, it + 1}

FairSpec == Spec /\ WF_<<pc, it>>(Advance)

\* ------------------------------------------------------------------------
\* Properties
\* ------------------------------------------------------------------------
Aggregated == pc \in {"map", "for", "save", "done"}

\* position (1-based) of zone z in the iteration order of the zone table
Rank(z) == Cardinality({ y \in DOMAIN zones : y < z }) + 1

\* the marker the loop added for zone z
MarkerOf(z) == map.children[Rank(z)]

\* indices of the rows of the table that belong to zone z (at hour h)
ZoneRows(z) == { i \in 1..Len(df) : df[i].zone = z }

HourRows(z, h) == { i \in ZoneRows(z) : df[i].hod = h }

HoursOfDay == 0..(Len(fill_colors) - 1)

RECURSIVE SumFn(_, _)
SumFn(f, S) ==
  IF S = {} THEN 0
  ELSE LET x == CHOOSE y \in S : TRUE IN f[x] + SumFn(f, S \ {x})

RECURSIVE CarhSumIds(_, _)
CarhSumIds(lo, hi) ==
  IF lo = hi THEN (IF lo \in DOMAIN zones THEN zones[lo].carh ELSE 0)
  ELSE LET mid == (lo + hi) \div 2
       IN  CarhSumIds(lo, mid) + CarhSumIds(mid + 1, hi)

\* C1: once the zone table is built, it has exactly n_clusters (250) rows,
\* whatever labels the clustering returned.
C1_ZoneCountIsClusterCount ==
  Aggregated => Cardinality(DOMAIN zones) = n_clusters

\* C2: the hourly profile of every marker has exactly the 24 buckets 0..23,
\* whatever hours the rows of its zone cover.
C2_ProfileHas24Buckets ==
  \A k \in 1..Len(map.children) : DOMAIN map.children[k].popup = 0..23

\* C3: when the run has finished, the fill colour of every zone's marker is
\* the colour-table entry of an hour whose weight, summed over the rows of
\* the zone in the table, is the maximum over all hours of the day.
C3_FillColorOfPeakHour ==
  pc = "done" =>
    \A z \in DOMAIN zones :
      \E h \in HoursOfDay :
        /\ MarkerOf(z).fill_color = fill_colors[h + 1]
        /\ HourRows(z, h) # {}
        /\ \A g \in HoursOfDay :
             Cardinality(HourRows(z, g)) * RowWeight
               <= Cardinality(HourRows(z, h)) * RowWeight

C3_Witness ==
  /\ pc = "done"
  /\ \E z \in DOMAIN zones :
       /\ Cardinality(HourRows(z, 8)) > Cardinality(HourRows(z, 0))
       /\ Cardinality(HourRows(z, 0)) > 0
       /\ MarkerOf(z).fill_color = "#bcbc73"

\* C4: when the run has finished, the saved map holds exactly one marker per
\* row of the zone table, the k-th marker sitting at the centroid (mean lat,
\* mean lon of the zone's rows) of the k-th zone.
C4_OneMarkerPerZone ==
  pc = "done" =>
    /\ Len(html) = 1
    /\ Len(html[1].children) = Cardinality(DOMAIN zones)
    /\ \A z \in DOMAIN zones :
         LET rows == Query(df, z)
         IN  html[1].children[Rank(z)].location
               = << ColMean(rows, "lat"), ColMean(rows, "lon") >>

C4_Witness ==
  /\ pc = "done"
  /\ Len(html) = 1
  /\ Len(html[1].children) = 2
  /\ html[1].children[1].location # html[1].children[2].location
  /\ html[1].children[1].location[1] # html[1].children[1].location[2]

\* C5: for every zone, the hourly profile of its marker summed over the
\* hours and multiplied by num_days equals the zone's total weight, and in
\* units of one row (1/12 car-hour) the profile adds up to the number of
\* rows of the zone.
C5_ProfileSumsToTotal ==
  pc = "done" =>
    \A z \in DOMAIN zones :
      LET prof == MarkerOf(z).popup
          total == SumFn(prof, DOMAIN prof) * num_days
      IN  /\ total = zones[z].carh
          /\ total * samples_per_hour = Cardinality(ZoneRows(z)) * CarHour

C5_Witness ==
  /\ pc = "done"
  /\ \E z \in DOMAIN zones :
       /\ DOMAIN MarkerOf(z).popup = {0, 8}
       /\ MarkerOf(z).popup[0] # MarkerOf(z).popup[8]

\* C6: among the markers of a finished run, a zone of no greater total
\* weight never has the greater radius.
C6_RadiusMonotonic ==
  pc = "done" =>
    \A a, b \in DOMAIN zones :
      zones[a].carh <= zones[b].carh
        => MarkerOf(a).radius <= MarkerOf(b).radius

C6_Witness ==
  /\ pc = "done"
  /\ \E a, b \in DOMAIN zones :
       /\ zones[a].carh < zones[b].carh
       /\ MarkerOf(a).radius < MarkerOf(b).radius

\* C7: from the moment the weight column exists, every row carries the
\* weight 1/samples_per_hour car-hour (CarHour/12 units), in every later
\* stage.
C7_ConstantWeight ==
  pc \notin {"read_csv", "carh"} =>
    \A i \in 1..Len(df) : df[i].carh * samples_per_hour = CarHour

C7_Witness ==
  /\ pc = "save"
  /\ Len(df) > n_clusters
  /\ df[Len(df)].carh * 12 = CarHour

StageRank ==
  [read_csv |-> 0, carh |-> 1, zone |-> 2, zones |-> 3, map |-> 4,
   for |-> 5, save |-> 6, done |-> 7, error |-> 8]

\* C8: the run goes through its stages in the order of the script, each
\* once (only the loop repeats, once per zone), it always reaches the end,
\* and the file is written once, after every zone has its marker.
C8_LinearPipeline ==
  /\ <>(pc = "done")
  /\ [](Len(html) <= 1)
  /\ [](Len(html) = 1 =>
          /\ pc = "done"
          /\ Len(html[1].children) = Cardinality(DOMAIN zones))
  /\ [][ \/ StageRank[pc'] = StageRank[pc] + 1
         \/ (pc = "for" /\ pc' = "for" /\ it' = it + 1) ]_vars

C8_Witness ==
  /\ pc = "done"
  /\ Len(html) = 1
  /\ Len(html[1].children) = n_clusters
  /\ it = n_clusters

\* C9: the script never raises in the loop: every zone the loop is about
\* to visit has at least one row, so its profile is not empty, and the hour
\* of its peak, the index into the colour table, is within 0..23.
C9_PeakDefinedAndInRange ==
  /\ pc # "error"
  /\ (pc = "for" /\ it < Cardinality(DOMAIN zones)) =>
       /\ ZoneRows(LoopZone) # {}
       /\ DOMAIN CarhByHod(df, LoopZone) # {}
       /\ IdxMax(CarhByHod(df, LoopZone)) \in 0..23

C9_Witness ==
  /\ pc = "for"
  /\ it = 1
  /\ Cardinality(DOMAIN zones) = 2
  /\ LoopZone = n_clusters - 1

\* C10: the totals of the zone table add up to the number of rows of the
\* table times 1/12 car-hour, and every zone of the table has a positive
\* total.
C10_WeightConserved ==
  Aggregated =>
    /\ CarhSumIds(0, n_clusters - 1) * samples_per_hour = Len(df) * CarHour
    /\ \A z \in DOMAIN zones : zones[z].carh > 0

C10_Witness ==
  /\ pc = "map"
  /\ Cardinality(DOMAIN zones) = n_clusters - 1
  /\ Len(df) = n_clusters + 1

====
